---- MODULE Spec2Model ----
(***************************************************************************)
(* A model of the easyKV vault backend (vault/client.go): Client.GetValues *)
(* with walkTree, isKV and flatten, against a remote store that answers    *)
(* the two primitives Logical().List and Logical().Read; New with          *)
(* authenticate, getParameter and panicToError; and WatchPrefix.           *)
(*                                                                         *)
(* Go strings are sequences of one-character strings, so that the trailing *)
(* slash strip of walkTree and path.Join/path.Clean are computed on the    *)
(* characters.  A Go interface{} value is a record [t, s, m]: t is the     *)
(* dynamic type, s the text of a string (or the literal of a number or a   *)
(* bool), m the fields of a map (a function from field names to values) or *)
(* the elements of a list (a sequence of values).                          *)
(***************************************************************************)
EXTENDS Naturals, Sequences, FiniteSets, Bags, TLC

VARIABLES
    remote,     \* the remote store: what List and Read answer at each path
    pc,         \* where GetValues is: "idle", "walk" (lines 200-202), "read" (205-227)
    keys,       \* the prefixes of the running (or last) GetValues call
    i,          \* the index of the next prefix of the loop of line 200
    stack,      \* the frames of the walkTree calls in progress
    walkRet,    \* the error the last finished walkTree call returned
    branches,   \* the visited set of line 198
    listCalls,  \* the paths passed to Logical().List by this call, in order
    unread,     \* the keys of branches the loop of line 205 has not reached
    readCalls,  \* the bag of paths passed to Logical().Read by this call
    lastRead,   \* <<p>> for the path p of the latest Read of this call, or <<>>
    vars,       \* the output mapping of line 204
    ret,        \* what the last finished GetValues call returned
    prev,       \* the call before the running (or last) one: its prefixes and outcome
    newArgs,    \* the arguments and the environment of the call of New
    newRet,     \* what New returned, or the panic that left it
    loginCalls, \* the paths of the calls authenticate sent to the remote store
    token,      \* the token of the vault client: SetToken and Token
    watchRet    \* what the last call of WatchPrefix returned

\* the state of a fetch, and the state New and WatchPrefix leave
fetchVars == <<remote, pc, keys, i, stack, walkRet, branches, listCalls, unread,
               readCalls, lastRead, vars, ret, prev>>
clientVars == <<newArgs, newRet, loginCalls, token, watchRet>>

allVars == <<fetchVars, clientVars>>

-----------------------------------------------------------------------------
(* Bounds of the model *)

\* the largest number of prefixes passed to one GetValues call
MaxKeys == 2

-----------------------------------------------------------------------------
(* Go values *)

Str(s) == [t |-> "string", s |-> s, m |-> <<>>]
Num(s) == [t |-> "number", s |-> s, m |-> <<>>]
Bool(s) == [t |-> "bool", s |-> s, m |-> <<>>]
Null == [t |-> "nil", s |-> <<>>, m |-> <<>>]
Map(m) == [t |-> "map", s |-> <<>>, m |-> m]
List(l) == [t |-> "list", s |-> <<>>, m |-> l]

\* a Go map[string]string / map[string]interface{} with no entry
EmptyMap == <<>>

\* m[k] = v of a Go map
MapSet(m, k, v) == (k :> v) @@ m

\* delete(m, k) of a Go map
MapDelete(m, k) == [x \in (DOMAIN m) \ {k} |-> m[x]]

\* the nil error, and the errors of the remote calls
NoErr == <<>>
ListErr(p) == <<"list failed", p>>
ReadErr(p) == <<"read failed", p>>

-----------------------------------------------------------------------------
(* path.Join and path.Clean of the Go standard library, as walkTree and     *)
(* flatten use them                                                        *)

\* the elements of p between slashes, empty ones included
RECURSIVE SplitSlash(_, _)
SplitSlash(p, cur) ==
    IF p = <<>> THEN <<cur>>
    ELSE IF Head(p) = "/" THEN <<cur>> \o SplitSlash(Tail(p), <<>>)
    ELSE SplitSlash(Tail(p), Append(cur, Head(p)))

\* path.Clean's pass over the elements: empty and "." elements are dropped,
\* ".." removes the element before it (a rooted path drops ".." at the root,
\* a relative path keeps leading ".." elements)
RECURSIVE CleanElems(_, _, _)
CleanElems(elems, out, rooted) ==
    IF elems = <<>> THEN out
    ELSE LET e == Head(elems)
             rest == Tail(elems)
         IN  IF e = <<>> \/ e = <<".">> THEN CleanElems(rest, out, rooted)
             ELSE IF e = <<".", ".">>
                  THEN IF out # <<>> /\ out[Len(out)] # <<".", ".">>
                       THEN CleanElems(rest, SubSeq(out, 1, Len(out) - 1), rooted)
                       ELSE IF rooted THEN CleanElems(rest, out, rooted)
                       ELSE CleanElems(rest, Append(out, e), rooted)
                  ELSE CleanElems(rest, Append(out, e), rooted)

\* the elements joined by single slashes
RECURSIVE JoinElems(_)
JoinElems(elems) ==
    IF elems = <<>> THEN <<>>
    ELSE IF Len(elems) = 1 THEN elems[1]
    ELSE elems[1] \o <<"/">> \o JoinElems(Tail(elems))

\* path.Clean(p)
Clean(p) ==
    IF p = <<>> THEN <<".">>
    ELSE LET rooted == p[1] = "/"
             body == JoinElems(CleanElems(SplitSlash(p, <<>>), <<>>, rooted))
         IN  IF rooted THEN <<"/">> \o body
             ELSE IF body = <<>> THEN <<".">> ELSE body

\* the buffer path.Join builds from its elements before cleaning it
RECURSIVE JoinBuf(_, _)
JoinBuf(elem, buf) ==
    IF elem = <<>> THEN buf
    ELSE LET e == Head(elem)
         IN  IF buf # <<>> THEN JoinBuf(Tail(elem), buf \o <<"/">> \o e)
             ELSE IF e # <<>> THEN JoinBuf(Tail(elem), e)
             ELSE JoinBuf(Tail(elem), buf)

\* path.Join(key, "/", innerKey)
PathJoin(key, innerKey) ==
    LET buf == JoinBuf(<<key, <<"/">>, innerKey>>, <<>>)
    IN  IF buf = <<>> THEN <<>> ELSE Clean(buf)

\* the strip without the test that the slash is not the only character
StripSlash_Always(key) ==
    IF Len(key) - 1 >= 0 /\ key[Len(key)] = "/"
    THEN SubSeq(key, 1, Len(key) - 1)
    ELSE key

\* walkTree's normalisation of its key: one trailing slash is stripped as long
\* as it is not the only character (lines 233-236)
StripSlash(key) ==
    IF Len(key) - 1 > 0 /\ key[Len(key)] = "/"
    THEN SubSeq(key, 1, Len(key) - 1)
    ELSE key

-----------------------------------------------------------------------------
(* json.Marshal of the Go standard library on the values of the model: the *)
(* fields of a map in the byte order of their names.  The strings of the   *)
(* model hold no character that JSON escapes.                              *)

\* the characters of the model in byte order
AsciiOrder ==
    <<"\"", ",", ".", "/", "0", "1", "2", "3", "4", "5", "6", "7", "8", "9", ":",
      "[", "]", "a", "b", "c", "d", "e", "f", "g", "h", "i", "j", "k", "l", "m",
      "n", "o", "p", "q", "r", "s", "t", "u", "v", "w", "x", "y", "z", "{", "}">>

CharCode(c) == CHOOSE n \in 1..Len(AsciiOrder) : AsciiOrder[n] = c

\* a < b as Go compares strings
RECURSIVE StrLess(_, _)
StrLess(a, b) ==
    IF b = <<>> THEN FALSE
    ELSE IF a = <<>> THEN TRUE
    ELSE IF Head(a) = Head(b) THEN StrLess(Tail(a), Tail(b))
    ELSE CharCode(Head(a)) < CharCode(Head(b))

\* the enumerations of a finite set, each element once
Orders(S) ==
    {f \in [1..Cardinality(S) -> S] : \A x, y \in 1..Cardinality(S) : f[x] = f[y] => x = y}

SortedNames(S) ==
    CHOOSE f \in Orders(S) : \A x, y \in 1..Cardinality(S) : x < y => StrLess(f[x], f[y])

RECURSIVE Marshal(_)
RECURSIVE MarshalFields(_, _)
RECURSIVE MarshalElems(_)
MarshalFields(m, names) ==
    IF names = <<>> THEN <<>>
    ELSE <<"\"">> \o Head(names) \o <<"\"", ":">> \o Marshal(m[Head(names)])
         \o (IF Len(names) > 1 THEN <<",">> ELSE <<>>)
         \o MarshalFields(m, Tail(names))

MarshalElems(l) ==
    IF l = <<>> THEN <<>>
    ELSE Marshal(Head(l)) \o (IF Len(l) > 1 THEN <<",">> ELSE <<>>) \o MarshalElems(Tail(l))

Marshal(v) ==
    CASE v.t = "string" -> <<"\"">> \o v.s \o <<"\"">>
      [] v.t = "number" -> v.s
      [] v.t = "bool" -> v.s
      [] v.t = "nil" -> <<"n", "u", "l", "l">>
      [] v.t = "list" -> <<"[">> \o MarshalElems(v.m) \o <<"]">>
      [] v.t = "map" -> <<"{">> \o MarshalFields(v.m, SortedNames(DOMAIN v.m)) \o <<"}">>

-----------------------------------------------------------------------------
(* isKV and flatten *)

sValue == <<"v", "a", "l", "u", "e">>

\* isKV without the test of the number of fields
isKV_AnyLen(data) ==
    IF sValue \in DOMAIN data
    THEN IF data[sValue].t = "string"
         THEN [text |-> data[sValue].s, ok |-> TRUE]
         ELSE [text |-> <<>>, ok |-> FALSE]
    ELSE [text |-> <<>>, ok |-> FALSE]

\* isKV(data): the text and ok
isKV(data) ==
    IF Cardinality(DOMAIN data) = 1
    THEN IF sValue \in DOMAIN data
         THEN IF data[sValue].t = "string"
              THEN [text |-> data[sValue].s, ok |-> TRUE]
              ELSE [text |-> <<>>, ok |-> FALSE]
         ELSE [text |-> <<>>, ok |-> FALSE]
    ELSE [text |-> <<>>, ok |-> FALSE]

\* flatten(key, value, vars): the mappings the call can leave in vars, one for
\* each order in which the range loops of line 290 can visit the fields (Go
\* leaves the iteration order of a map unspecified).  varsSet holds the
\* mappings vars can hold when the call starts.
RECURSIVE flatten(_, _, _)
RECURSIVE flattenRange(_, _, _, _)
flattenRange(key, inner, order, varsSet) ==
    IF order = <<>> THEN varsSet
    ELSE flattenRange(key, inner, Tail(order),
                      flatten(PathJoin(key, Head(order)), inner[Head(order)], varsSet))

flatten(key, value, varsSet) ==
    CASE value.t = "string" -> {MapSet(v, key, value.s) : v \in varsSet}
      [] value.t = "map" ->
            UNION {flattenRange(key, value.m, order, varsSet) : order \in Orders(DOMAIN value.m)}
      [] OTHER -> varsSet

-----------------------------------------------------------------------------
(* The remote store.  Logical().List and Logical().Read return a response  *)
(* and an error; the response may be nil, and its Data may be nil.         *)

\* answers of Logical().List(p)
LFail(p) == [err |-> ListErr(p), respNil |-> TRUE, dataNil |-> TRUE, keys |-> Null]
LNil == [err |-> NoErr, respNil |-> TRUE, dataNil |-> TRUE, keys |-> Null]
LNoData == [err |-> NoErr, respNil |-> FALSE, dataNil |-> TRUE, keys |-> Null]
LNoKeys == [err |-> NoErr, respNil |-> FALSE, dataNil |-> FALSE, keys |-> Null]
LKeys(v) == [err |-> NoErr, respNil |-> FALSE, dataNil |-> FALSE, keys |-> v]

\* answers of Logical().Read(p)
RFail(p) == [err |-> ReadErr(p), respNil |-> TRUE, dataNil |-> TRUE, data |-> EmptyMap]
RNil == [err |-> NoErr, respNil |-> TRUE, dataNil |-> TRUE, data |-> EmptyMap]
RNoData == [err |-> NoErr, respNil |-> FALSE, dataNil |-> TRUE, data |-> EmptyMap]
RData(m) == [err |-> NoErr, respNil |-> FALSE, dataNil |-> FALSE, data |-> m]

\* the paths of the model
pEmpty == <<>>
pRoot == <<"/">>
pA == <<"/", "a">>
pASlash == <<"/", "a", "/">>
pAB == <<"/", "a", "/", "b">>

\* the prefixes a caller passes
KeySet == {pEmpty, pRoot, pA, pASlash}

\* the prefix lists of a GetValues call
KeyLists == UNION {[1..n -> KeySet] : n \in 0..MaxKeys}

\* the listings of /a and of /a/b the model draws from: a failure, the four
\* shapes that make a leaf, and child names with a trailing slash, of another
\* type, empty, repeated, and leading back to the parent or to the path itself
ALeafLists == {LFail(pA), LNil, LNoData, LNoKeys, LKeys(Str(<<"b">>))}

AChildLists ==
    { LKeys(List(<<Str(<<"b", "/">>), Num(<<"7">>), Str(<<>>)>>)),
      LKeys(List(<<Str(<<"b">>), Str(<<"b", "/">>)>>)) }

BLists == {LFail(pAB), LNil, LKeys(List(<<Str(<<".", ".">>), Str(<<".">>)>>))}

\* the store lists "/" and the empty path alike; a path the store does not
\* know is answered (nil, nil)
Tree(a, b) ==
    (pEmpty :> LKeys(List(<<Str(<<"a", "/">>)>>)))
    @@ (pRoot :> LKeys(List(<<Str(<<"a", "/">>)>>)))
    @@ (pA :> a) @@ (pAB :> b)

TreeDefault ==
    Tree(LKeys(List(<<Str(<<"b", "/">>), Num(<<"7">>), Str(<<>>)>>)),
         LKeys(List(<<Str(<<".", ".">>), Str(<<".">>)>>)))

Trees ==
    {Tree(a, LNil) : a \in ALeafLists} \cup {Tree(a, b) : a \in AChildLists, b \in BLists}

\* the values of /a and of /a/b the model draws from
sX == <<"x">>
sY == <<"y">>

AValues ==
    { RFail(pA), RNil,
      RData(sValue :> Str(sX)),
      RData((sValue :> Str(<<"h", "e", "l", "l", "o">>)) @@ (<<"o", "t", "h", "e", "r">> :> Str(sX))),
      RData(<<"b">> :> Str(sX)),
      RData((<<"b">> :> Map((<<"c">> :> Str(sX)) @@ (<<"n">> :> Num(<<"7">>))))
            @@ (<<"l">> :> List(<<Str(sX)>>))) }

BValues ==
    { RFail(pAB), RNoData,
      RData(sValue :> Str(sY)),
      RData(sValue :> Num(<<"7">>)),
      RData((<<"c">> :> Str(sY)) @@ (<<"t">> :> Bool(<<"t", "r", "u", "e">>)) @@ (<<"z">> :> Null)) }

Store(a, b) == (pA :> a) @@ (pAB :> b)

StoreDefault == Store(RData(sValue :> Str(sX)), RData(sValue :> Str(sY)))

Stores == {Store(a, b) : a \in AValues, b \in BValues}

\* the remote stores of the model: every tree over the default values, and
\* every choice of values under the default tree
Remotes ==
    {[list |-> t, read |-> StoreDefault] : t \in Trees}
    \cup {[list |-> TreeDefault, read |-> s] : s \in Stores}

\* c.Logical().List(key)
LogicalList(key) == IF key \in DOMAIN remote.list THEN remote.list[key] ELSE LNil

\* c.client.Logical().Read(key)
LogicalRead(key) == IF key \in DOMAIN remote.read THEN remote.read[key] ELSE RNil

-----------------------------------------------------------------------------
(* The state machine *)

NotCalled == [called |-> FALSE, varsNil |-> TRUE, vars |-> EmptyMap, err |-> NoErr]
Returned(v, e) == [called |-> TRUE, varsNil |-> FALSE, vars |-> v, err |-> e]
ReturnedNil(e) == [called |-> TRUE, varsNil |-> TRUE, vars |-> EmptyMap, err |-> e]

NoPrev == [valid |-> FALSE, keys |-> <<>>, branches |-> {}, listCalls |-> <<>>, ret |-> NotCalled]

\* a walkTree call that has not run yet, and one inside the loop of line 260
Entry(key) == [pc |-> "entry", key |-> key, keyList |-> <<>>, idx |-> 0]
Loop(key, keyList, idx) == [pc |-> "loop", key |-> key, keyList |-> keyList, idx |-> idx]

Top == stack[Len(stack)]
Pop == SubSeq(stack, 1, Len(stack) - 1)

-----------------------------------------------------------------------------
(* New, authenticate, getParameter and panicToError: lines 37-117, 152-189 *)

\* The auth type, the option values, the paths of the login calls and the
\* messages are kept as whole strings: nothing in this part looks inside one.

\* the auth types of the switch of line 68, the empty one of line 171 and one
\* the switch has no case for
AuthTypes ==
    {"", "approle", "app-id", "github", "token", "userpass", "kubernetes", "cert", "ldap"}

\* the entries of params (lines 158-165) that authenticate can ask for, each
\* empty or set; the entries cert, key and caCert are read by nobody
ParamNames == {"role-id", "secret-id", "app-id", "user-id", "username", "password", "token"}
ParamMaps == [ParamNames -> {"", "v"}]

\* what a login call answers: an error, no secret, a secret without an Auth
\* section, a secret with a client token
SecretNone == [err |-> NoErr, secret |-> "nil", clientToken |-> ""]
LoginFail == [err |-> <<"login failed">>, secret |-> "nil", clientToken |-> ""]
SecretNoAuth == [err |-> NoErr, secret |-> "noauth", clientToken |-> ""]
SecretAuth == [err |-> NoErr, secret |-> "auth", clientToken |-> "t1"]
LoginAnswers == {LoginFail, SecretNone, SecretNoAuth, SecretAuth}

\* what New finds around it: whether getConfig and vaultapi.NewClient succeed
\* (the TLS options name files that load or do not), whether the service
\* account token of line 92 can be read, the token vaultapi.NewClient takes
\* from its environment, and the answer of the login call
Envs ==
    [setup : {"ok", "config", "client"},
     jwt : BOOLEAN,
     envToken : {"", "t0"},
     login : LoginAnswers]

\* a panic in flight: none, a string, an error, a value of another type
NoPanic == [t |-> "none", v |-> <<>>]
PanicString(s) == [t |-> "string", v |-> s]
PanicError(e) == [t |-> "error", v |-> e]

\* errors.New(t), the errors of lines 93, 127, 136 and 181, and the runtime
\* error of a nil pointer dereference
ErrorsNew(t) == <<"errors.New", t>>
ErrNoAuthType == ErrorsNew(<<"you have to set the auth type when using the vault backend">>)
ErrReadFile == <<"ioutil.ReadFile failed">>
ErrConfig == <<"getConfig failed">>
ErrNewClient == <<"vaultapi.NewClient failed">>
ErrNilPointer == <<"runtime error: invalid memory address or nil pointer dereference">>

\* fmt.Sprintf("%s is missing from configuration", key)
MissingText(key) == <<key, " is missing from configuration">>

\* the value returned whether it is empty or not
getParameter_NoPanic(key, parameters) == [panic |-> NoPanic, value |-> parameters[key]]

\* lines 37-44: the value, or the panic of line 41
getParameter(key, parameters) ==
    IF parameters[key] = ""
    THEN [panic |-> PanicString(MissingText(key)), value |-> ""]
    ELSE [panic |-> NoPanic, value |-> parameters[key]]

\* lines 47-58 on the recovered value r: the error left in *err and the
\* panic that goes on
panicToError(r, err) ==
    IF r.t = "none" THEN [err |-> err, panic |-> NoPanic]
    ELSE IF r.t = "string" THEN [err |-> ErrorsNew(r.v), panic |-> NoPanic]
    ELSE IF r.t = "error" THEN [err |-> r.v, panic |-> NoPanic]
    ELSE [err |-> err, panic |-> r]

\* the state of authenticate after its switch: the panic raised, whether a
\* return statement ran, err, secret, the token of c and the calls sent
Switched(panic, returned, err, secret, tok, calls) ==
    [panic |-> panic, returned |-> returned, err |-> err, secret |-> secret,
     token |-> tok, calls |-> calls]

\* the panic of the first of the getParameter calls on names, in the order Go
\* evaluates them, before the call they are arguments of
FirstPanic(names, params) ==
    LET missing == {n \in DOMAIN names : getParameter(names[n], params).panic # NoPanic}
    IN  IF missing = {}
        THEN NoPanic
        ELSE getParameter(names[CHOOSE n \in missing : \A k \in missing : n <= k],
                          params).panic

\* secret, err = c.Logical().Write(path, {...}) once its arguments are
\* evaluated, panic being the panic their evaluation raised; and the Read of
\* line 85
LoginCall(path, panic, env, tok) ==
    IF panic # NoPanic
    THEN Switched(panic, FALSE, NoErr, SecretNone, tok, <<>>)
    ELSE Switched(NoPanic, FALSE, env.login.err, env.login, tok, <<path>>)

\* lines 91-99: the err of the case shadows the err authenticate returns
KubernetesCase(params, env) ==
    IF ~env.jwt
    THEN Switched(NoPanic, TRUE, ErrReadFile, SecretNone, env.envToken, <<>>)
    ELSE [LoginCall("/auth/kubernetes/login", FirstPanic(<<"role-id">>, params), env,
                    env.envToken)
            EXCEPT !.err = NoErr]

\* lines 83-85, tokenParam being getParameter("token", params)
TokenCase(tokenParam, env) ==
    IF tokenParam.panic # NoPanic
    THEN Switched(tokenParam.panic, FALSE, NoErr, SecretNone, env.envToken, <<>>)
    ELSE LoginCall("/auth/token/lookup-self", NoPanic, env, tokenParam.value)

\* lines 68-102
AuthSwitch(authType, params, env) ==
    CASE authType = "approle" ->
            LoginCall("/auth/approle/login",
                      FirstPanic(<<"role-id", "secret-id">>, params), env, env.envToken)
      [] authType = "app-id" ->
            LoginCall("/auth/app-id/login",
                      FirstPanic(<<"app-id", "user-id">>, params), env, env.envToken)
      [] authType = "github" ->
            LoginCall("/auth/github/login", FirstPanic(<<"token">>, params), env,
                      env.envToken)
      [] authType = "token" -> TokenCase(getParameter("token", params), env)
      [] authType = "userpass" ->
            LoginCall(<<"/auth/userpass/login/", params["username"]>>,
                      FirstPanic(<<"username", "password">>, params), env, env.envToken)
      [] authType = "kubernetes" -> KubernetesCase(params, env)
      [] authType = "cert" -> LoginCall("/auth/cert/login", NoPanic, env, env.envToken)
      [] OTHER -> Switched(NoPanic, FALSE, NoErr, SecretNone, env.envToken, <<>>)

\* lines 104-116 on the state sw the switch left: the panic raised, err and
\* the token of c before the deferred call runs
AfterSwitch(sw) ==
    IF sw.panic # NoPanic THEN [panic |-> sw.panic, err |-> sw.err, token |-> sw.token]
    ELSE IF sw.returned \/ sw.err # NoErr
    THEN [panic |-> NoPanic, err |-> sw.err, token |-> sw.token]
    ELSE IF sw.token # ""
    THEN [panic |-> NoPanic, err |-> NoErr, token |-> sw.token]
    ELSE IF sw.secret.secret # "auth"
    THEN [panic |-> PanicError(ErrNilPointer), err |-> NoErr, token |-> sw.token]
    ELSE [panic |-> NoPanic, err |-> NoErr, token |-> sw.secret.clientToken]

\* line 66: the deferred panicToError(&err) on what the body left; gives the
\* error returned, the panic that leaves authenticate, the token of c and
\* the calls sent
Deferred(body, calls) ==
    [err |-> panicToError(body.panic, body.err).err,
     panic |-> panicToError(body.panic, body.err).panic,
     token |-> body.token,
     calls |-> calls]

\* the body of authenticate on the state sw the switch left
AuthBody(sw) == Deferred(AfterSwitch(sw), sw.calls)

\* lines 61-117
authenticate(authType, params, env) == AuthBody(AuthSwitch(authType, params, env))

\* New has not been called; New returned (client, err); a panic left New
NewNotCalled == [called |-> FALSE, clientNil |-> TRUE, err |-> NoErr, panic |-> NoPanic]
NewReturned(clientNil, err) ==
    [called |-> TRUE, clientNil |-> clientNil, err |-> err, panic |-> NoPanic]
NewPanicked(r) == [called |-> TRUE, clientNil |-> TRUE, err |-> NoErr, panic |-> r]

NoArgs == [authType |-> "", params |-> <<>>, env |-> <<>>]

\* lines 185-188 on what authenticate gave
Authenticated(a) ==
    [ret |-> IF a.panic # NoPanic THEN NewPanicked(a.panic)
             ELSE IF a.err # NoErr THEN NewReturned(TRUE, a.err)
             ELSE NewReturned(FALSE, NoErr),
     calls |-> a.calls,
     token |-> a.token]

\* lines 152-189: what New returns, the calls sent and the token of c
NewOutcome(authType, params, env) ==
    IF authType = ""
    THEN [ret |-> NewReturned(TRUE, ErrNoAuthType), calls |-> <<>>, token |-> ""]
    ELSE IF env.setup = "config"
    THEN [ret |-> NewReturned(TRUE, ErrConfig), calls |-> <<>>, token |-> ""]
    ELSE IF env.setup = "client"
    THEN [ret |-> NewReturned(TRUE, ErrNewClient), calls |-> <<>>, token |-> ""]
    ELSE Authenticated(authenticate(authType, params, env))

\* the state out, the outcome of New, leaves
Constructed(out) ==
    /\ newRet = out.ret
    /\ loginCalls = out.calls
    /\ token = out.token

\* the client the fetches of this model run on: New with the auth type token
TokenParams == [n \in ParamNames |-> IF n = "token" THEN "v" ELSE ""]
TokenEnv == [setup |-> "ok", jwt |-> FALSE, envToken |-> "", login |-> SecretNoAuth]

\* WatchPrefix has not been called
NotWatched == [called |-> FALSE, ctx |-> "", prefix |-> <<>>, index |-> 0, err |-> NoErr]

\* easykv.ErrWatchNotSupported, named at line 299
ErrWatchNotSupported == <<"easykv.ErrWatchNotSupported">>

\* the state after New("token") has returned a client, before any fetch
Init ==
    /\ remote \in Remotes
    /\ pc = "idle"
    /\ keys = <<>>
    /\ i = 1
    /\ stack = <<>>
    /\ walkRet = NoErr
    /\ branches = {}
    /\ listCalls = <<>>
    /\ unread = {}
    /\ readCalls = EmptyBag
    /\ lastRead = <<>>
    /\ vars = EmptyMap
    /\ ret = NotCalled
    /\ prev = NoPrev
    /\ newArgs = [authType |-> "token", params |-> TokenParams, env |-> TokenEnv]
    /\ Constructed(NewOutcome("token", TokenParams, TokenEnv))
    /\ watchRet = NotWatched

\* the prefix lists a caller passes after a call with ks: the same prefixes
\* again, in any order and with any repetition, or the one prefix of ks with
\* or without a trailing slash
Prefixes(ks) == {ks[n] : n \in DOMAIN ks}

NextKeyLists(ks) ==
    {ns \in KeyLists :
        \/ Prefixes(ns) = Prefixes(ks)
        \/ /\ Len(ns) = 1
           /\ Len(ks) = 1
           /\ (ns[1] = ks[1] \o <<"/">> \/ ks[1] = ns[1] \o <<"/">>)}

\* a caller calls GetValues(ks): line 198
GetValues ==
    /\ pc = "idle"
    /\ \E ks \in (IF ret.called THEN NextKeyLists(keys) ELSE KeyLists) :
          keys' = ks
    /\ prev' = IF ret.called
               THEN [valid |-> TRUE, keys |-> keys, branches |-> branches,
                     listCalls |-> listCalls, ret |-> ret]
               ELSE prev
    /\ pc' = "walk"
    /\ i' = 1
    /\ stack' = <<>>
    /\ walkRet' = NoErr
    /\ branches' = {}
    /\ listCalls' = <<>>
    /\ unread' = {}
    /\ readCalls' = EmptyBag
    /\ lastRead' = <<>>
    /\ vars' = EmptyMap
    /\ ret' = NotCalled
    /\ UNCHANGED clientVars
    /\ UNCHANGED remote

\* RangeKeys with the visited set made anew for every prefix
RangeKeys_FreshBranches ==
    /\ pc = "walk"
    /\ stack = <<>>
    /\ IF i <= Len(keys)
       THEN /\ stack' = <<Entry(keys[i])>>
            /\ i' = i + 1
            /\ branches' = {}
            /\ UNCHANGED <<pc, vars, unread>>
       ELSE /\ pc' = "read"
            /\ vars' = EmptyMap
            /\ unread' = branches
            /\ UNCHANGED <<stack, i, branches>>
    /\ UNCHANGED clientVars
    /\ UNCHANGED <<remote, keys, walkRet, listCalls, readCalls, lastRead, ret, prev>>

\* the loop of lines 200-202 calls walkTree on the next prefix, dropping what
\* the call before returned; after the last prefix, line 204 and the start of
\* the loop of line 205
RangeKeys ==
    /\ pc = "walk"
    /\ stack = <<>>
    /\ IF i <= Len(keys)
       THEN /\ stack' = <<Entry(keys[i])>>
            /\ i' = i + 1
            /\ UNCHANGED <<pc, vars, unread>>
       ELSE /\ pc' = "read"
            /\ vars' = EmptyMap
            /\ unread' = branches
            /\ UNCHANGED <<stack, i>>
    /\ UNCHANGED clientVars
    /\ UNCHANGED <<remote, keys, walkRet, branches, listCalls, readCalls, lastRead, ret, prev>>

\* a guard that never finds the branch processed
Visited_Never(key) == FALSE

\* line 238: branches[key]
Visited(key) == key \in branches

\* the path listed without being recorded as processed
Mark_Nothing(key) == branches

\* line 242: branches[key] = true
Mark(key) == branches \cup {key}

\* walkTree with the Read of a path issued next to its List, while the
\* discovery is under way
WalkTreeEntry_ReadsToo ==
    /\ pc = "walk"
    /\ stack # <<>>
    /\ Top.pc = "entry"
    /\ LET key == StripSlash(Top.key)
           resp == LogicalList(key)
       IN  IF Visited(key)
           THEN /\ stack' = Pop
                /\ walkRet' = NoErr
                /\ UNCHANGED <<branches, listCalls, readCalls>>
           ELSE /\ branches' = Mark(key)
                /\ listCalls' = Append(listCalls, key)
                /\ readCalls' = readCalls (+) SetToBag({key})
                /\ IF resp.err # NoErr
                   THEN stack' = Pop /\ walkRet' = resp.err
                   ELSE IF resp.respNil \/ resp.dataNil \/ resp.keys.t = "nil"
                   THEN stack' = Pop /\ walkRet' = NoErr
                   ELSE IF resp.keys.t # "list"
                   THEN stack' = Pop /\ walkRet' = NoErr
                   ELSE /\ stack' = Append(Pop, Loop(key, resp.keys.m, 1))
                        /\ UNCHANGED walkRet
    /\ UNCHANGED clientVars
    /\ UNCHANGED <<remote, pc, keys, i, unread, lastRead, vars, ret, prev>>

\* walkTree from its entry to its first recursive call or its return: lines
\* 232-259
WalkTreeEntry ==
    /\ pc = "walk"
    /\ stack # <<>>
    /\ Top.pc = "entry"
    /\ LET key == StripSlash(Top.key)
           resp == LogicalList(key)
       IN  IF Visited(key)
           THEN /\ stack' = Pop
                /\ walkRet' = NoErr
                /\ UNCHANGED <<branches, listCalls>>
           ELSE /\ branches' = Mark(key)
                /\ listCalls' = Append(listCalls, key)
                /\ IF resp.err # NoErr
                   THEN stack' = Pop /\ walkRet' = resp.err
                   ELSE IF resp.respNil \/ resp.dataNil \/ resp.keys.t = "nil"
                   THEN stack' = Pop /\ walkRet' = NoErr
                   ELSE IF resp.keys.t # "list"
                   THEN stack' = Pop /\ walkRet' = NoErr
                   ELSE /\ stack' = Append(Pop, Loop(key, resp.keys.m, 1))
                        /\ UNCHANGED walkRet
    /\ UNCHANGED clientVars
    /\ UNCHANGED <<remote, pc, keys, i, unread, readCalls, lastRead, vars, ret, prev>>

\* the child name passed on as it is, not joined onto the key
ChildKey_NotJoined(key, innerKey) == innerKey.s

\* line 263: path.Join(key, "/", innerKey.(string))
ChildKey(key, innerKey) == PathJoin(key, innerKey.s)

\* the loop left at the first entry that is not a string
OnNonString_Return(next) == stack' = Pop

\* lines 261-265: the switch has no case for an entry that is not a string,
\* the loop goes on to the next entry
OnNonString(next) == stack' = Append(Pop, next)

\* one iteration of the loop of lines 260-266, or the return of line 267
WalkTreeLoop ==
    /\ pc = "walk"
    /\ stack # <<>>
    /\ Top.pc = "loop"
    /\ IF Top.idx > Len(Top.keyList)
       THEN /\ stack' = Pop
            /\ walkRet' = NoErr
       ELSE LET innerKey == Top.keyList[Top.idx]
                next == Loop(Top.key, Top.keyList, Top.idx + 1)
            IN  /\ IF innerKey.t = "string"
                   THEN stack' = Append(Append(Pop, next), Entry(ChildKey(Top.key, innerKey)))
                   ELSE OnNonString(next)
                /\ UNCHANGED walkRet
    /\ UNCHANGED clientVars
    /\ UNCHANGED <<remote, pc, keys, i, branches, listCalls, unread, readCalls, lastRead,
                   vars, ret, prev>>

\* lines 217-226 on the data of key
Merge(key, data, vs) ==
    IF isKV(data).ok
    THEN {MapSet(vs, key, isKV(data).text)}
    ELSE {MapDelete(v, key) :
            v \in flatten(key, Map(data), {MapSet(vs, key, Marshal(Map(data)))})}

\* the failed read skipped, the loop going on
OnReadError_Continue(err) == UNCHANGED <<vars, ret, pc>>

\* lines 208-210: return nil, err
OnReadError(err) ==
    /\ ret' = ReturnedNil(err)
    /\ pc' = "idle"
    /\ UNCHANGED vars

\* the loop left at the first path without data
OnNoData_Return ==
    /\ ret' = Returned(vars, NoErr)
    /\ pc' = "idle"
    /\ UNCHANGED vars

\* lines 211-213: continue
OnNoData == UNCHANGED <<vars, ret, pc>>

\* lines 217-226
OnData(key, data) ==
    /\ vars' \in Merge(key, data, vars)
    /\ UNCHANGED <<ret, pc>>

\* one iteration of the loop of lines 205-227, on any key the range has not
\* reached (Go leaves the order unspecified)
GetValuesRead ==
    /\ pc = "read"
    /\ \E key \in unread :
          LET resp == LogicalRead(key)
          IN  /\ unread' = unread \ {key}
              /\ readCalls' = readCalls (+) SetToBag({key})
              /\ lastRead' = <<key>>
              /\ IF resp.err # NoErr
                 THEN OnReadError(resp.err)
                 ELSE IF resp.respNil \/ resp.dataNil
                 THEN OnNoData
                 ELSE OnData(key, resp.data)
    /\ UNCHANGED clientVars
    /\ UNCHANGED <<remote, keys, i, stack, walkRet, branches, listCalls, prev>>

\* the mapping returned while paths of the range are still unread
RangeDone_Always == TRUE

\* the loop of line 205 has gone through every key of branches
RangeDone == unread = {}

\* line 228
GetValuesReturn ==
    /\ pc = "read"
    /\ RangeDone
    /\ ret' = Returned(vars, NoErr)
    /\ pc' = "idle"
    /\ UNCHANGED clientVars
    /\ UNCHANGED <<remote, keys, i, stack, walkRet, branches, listCalls, unread, readCalls,
                   lastRead, vars, prev>>

Next ==
    \/ GetValues
    \/ RangeKeys
    \/ WalkTreeEntry
    \/ WalkTreeLoop
    \/ GetValuesRead
    \/ GetValuesReturn

Spec == Init /\ [][Next]_allVars

\* One call of GetValues on each tree of the model, for the termination of
\* discovery: a running walkTree and the loop calling it go on, since the code
\* is sequential and a call of the remote store returns.
InitTrees == Init /\ remote.read = StoreDefault

FirstCall == ~ret.called /\ GetValues

OneCallNext ==
    \/ FirstCall
    \/ RangeKeys
    \/ WalkTreeEntry
    \/ WalkTreeLoop
    \/ GetValuesRead
    \/ GetValuesReturn

Walk == RangeKeys \/ WalkTreeEntry \/ WalkTreeLoop

FairSpec == InitTrees /\ [][OneCallNext]_allVars /\ WF_allVars(Walk)

-----------------------------------------------------------------------------
(* The construction of the client *)

\* the state before New is called
InitNew ==
    /\ remote = [list |-> TreeDefault, read |-> StoreDefault]
    /\ pc = "idle"
    /\ keys = <<>>
    /\ i = 1
    /\ stack = <<>>
    /\ walkRet = NoErr
    /\ branches = {}
    /\ listCalls = <<>>
    /\ unread = {}
    /\ readCalls = EmptyBag
    /\ lastRead = <<>>
    /\ vars = EmptyMap
    /\ ret = NotCalled
    /\ prev = NoPrev
    /\ newArgs = NoArgs
    /\ newRet = NewNotCalled
    /\ loginCalls = <<>>
    /\ token = ""
    /\ watchRet = NotWatched

\* New ends with the outcome out
Returns(out) ==
    /\ newRet' = out.ret
    /\ loginCalls' = out.calls
    /\ token' = out.token

\* a caller calls New(address, authType, opts...): lines 152-189
New ==
    /\ ~newRet.called
    /\ \E authType \in AuthTypes, params \in ParamMaps, env \in Envs :
          /\ newArgs' = [authType |-> authType, params |-> params, env |-> env]
          /\ Returns(NewOutcome(authType, params, env))
    /\ UNCHANGED <<fetchVars, watchRet>>

NewSpec == InitNew /\ [][New]_allVars

-----------------------------------------------------------------------------
(* WatchPrefix *)

\* the states of a context, and the prefixes passed to WatchPrefix
Contexts == {"live", "done"}

\* a watch that polls the store and reports what it found
WatchPrefixCall_Polls(ctx, prefix) ==
    /\ pc = "idle"
    /\ listCalls' = Append(listCalls, prefix)
    /\ watchRet' = [called |-> TRUE, ctx |-> ctx, prefix |-> prefix, index |-> 1,
                    err |-> LogicalList(prefix).err]
    /\ UNCHANGED <<remote, pc, keys, i, stack, walkRet, branches, unread, readCalls,
                   lastRead, vars, ret, prev>>
    /\ UNCHANGED <<newArgs, newRet, loginCalls, token>>

\* lines 298-300: return 0, easykv.ErrWatchNotSupported
WatchPrefixCall(ctx, prefix) ==
    /\ watchRet' = [called |-> TRUE, ctx |-> ctx, prefix |-> prefix, index |-> 0,
                    err |-> ErrWatchNotSupported]
    /\ UNCHANGED fetchVars
    /\ UNCHANGED <<newArgs, newRet, loginCalls, token>>

\* a caller calls WatchPrefix, between the steps of a fetch or outside one
WatchPrefix == \E ctx \in Contexts, prefix \in KeySet : WatchPrefixCall(ctx, prefix)

WatchNext ==
    \/ FirstCall
    \/ RangeKeys
    \/ WalkTreeEntry
    \/ WalkTreeLoop
    \/ GetValuesRead
    \/ GetValuesReturn
    \/ WatchPrefix

WatchSpec == InitTrees /\ [][WatchNext]_allVars

-----------------------------------------------------------------------------
(* What the claims speak of *)

\* the paths this call has passed to Logical().List and to Logical().Read
Listed == {listCalls[n] : n \in DOMAIN listCalls}
WasRead == BagToSet(readCalls)

\* the discovery of the running (or last) call is over
Discovered == pc = "read" \/ ret.called

\* p does not end in a slash
NoTrailingSlash(p) == p = <<>> \/ p[Len(p)] # "/"

-----------------------------------------------------------------------------
(* C1 *)

\* C1: once a Read of this call has failed, GetValues has returned the error
\* of that Read and a nil mapping, and that Read is the last one of the call:
\* the path was read once and no Read followed it.
C1_ReadErrorAborts ==
    \A p \in WasRead :
        LogicalRead(p).err # NoErr =>
            /\ pc = "idle"
            /\ ret = ReturnedNil(LogicalRead(p).err)
            /\ lastRead = <<p>>
            /\ readCalls[p] = 1

\* a Read failed after another Read had put an entry in the mapping, with
\* paths still unread
C1_Witness ==
    /\ ret.called
    /\ ret.err # NoErr
    /\ ret.varsNil
    /\ vars # EmptyMap
    /\ BagCardinality(readCalls) >= 2
    /\ unread # {}

-----------------------------------------------------------------------------
(* C2 *)

\* C2: when a List of this call has failed, at a prefix or at a descendant,
\* GetValues returns an error and no mapping.
C2_ListErrorFailsFetch ==
    (ret.called /\ \E p \in Listed : LogicalList(p).err # NoErr) =>
        (ret.err # NoErr /\ ret.varsNil)

-----------------------------------------------------------------------------
(* C3 *)

\* a walkTree call on a path already visited returns at once: nil, no List,
\* the visited set as it was
C3_RevisitReturns ==
    [][(pc = "walk" /\ stack # <<>> /\ Top.pc = "entry" /\ StripSlash(Top.key) \in branches)
        => (stack' = Pop /\ walkRet' = NoErr /\ listCalls' = listCalls
            /\ branches' = branches)]_allVars

\* C3: discovery terminates, also on a tree whose listings lead back to a
\* visited path, and a walkTree call on a visited path returns at once
\* without an error and without another List.
C3_DiscoveryTerminates ==
    /\ C3_RevisitReturns
    /\ (pc = "walk") ~> (pc = "read")

\* a child of the listing of a path led back to a path whose walkTree call is
\* still in progress (a cycle), and the call on it has returned nil
C3_Witness ==
    /\ pc = "walk"
    /\ stack # <<>>
    /\ Top.pc = "loop"
    /\ Top.idx > 1
    /\ Top.keyList[Top.idx - 1].t = "string"
    /\ \E n \in 1..Len(stack) - 1 :
          stack[n].key = PathJoin(Top.key, Top.keyList[Top.idx - 1].s)
    /\ walkRet = NoErr
    /\ Cardinality(Listed) = Len(listCalls)

-----------------------------------------------------------------------------
(* C4 *)

\* a prefix without one trailing slash, unless the slash is all of it
Normalized(p) == IF Len(p) > 1 /\ p[Len(p)] = "/" THEN SubSeq(p, 1, Len(p) - 1) ELSE p

\* the paths the string-typed child names of the listing of p give
ChildPaths(p) ==
    LET resp == LogicalList(p)
    IN  IF resp.err = NoErr /\ ~resp.respNil /\ ~resp.dataNil /\ resp.keys.t = "list"
        THEN {PathJoin(p, resp.keys.m[n].s) :
                n \in {x \in DOMAIN resp.keys.m : resp.keys.m[x].t = "string"}}
        ELSE {}

\* the paths reachable from the paths of S
RECURSIVE ReachableFrom(_)
ReachableFrom(S) ==
    LET T == S \cup UNION {ChildPaths(p) : p \in S}
    IN  IF T = S THEN S ELSE ReachableFrom(T)

\* C4: when no List of the call has failed, the visited set of a finished
\* discovery is the set of the paths reachable from the normalized prefixes
\* by the string-typed child names.
C4_VisitedIsReachable ==
    (Discovered /\ \A p \in Listed : LogicalList(p).err = NoErr) =>
        branches = ReachableFrom({Normalized(keys[n]) : n \in DOMAIN keys})

\* a discovery without a failed List that went two levels down from a prefix
\* given with a trailing slash
C4_Witness ==
    /\ Discovered
    /\ \A p \in Listed : LogicalList(p).err = NoErr
    /\ pASlash \in Prefixes(keys)
    /\ pAB \in branches
    /\ Cardinality(branches) >= 2

-----------------------------------------------------------------------------
(* C5 *)

\* C5: on the same remote tree, two calls with the same prefixes, in any
\* order and with any repetition, discover the same visited set.
C5_DiscoveryOrderIndependent ==
    (prev.valid /\ Discovered /\ Prefixes(prev.keys) = Prefixes(keys)) =>
        branches = prev.branches

\* the same two prefixes as the call before, in the other order, and three
\* paths discovered
C5_Witness ==
    /\ prev.valid
    /\ Discovered
    /\ Len(keys) = 2
    /\ keys[1] # keys[2]
    /\ prev.keys = <<keys[2], keys[1]>>
    /\ Cardinality(branches) >= 3

-----------------------------------------------------------------------------
(* C6, C7, C8, C9: the values read *)

\* the Read of p answers with data
HasData(p) ==
    LET resp == LogicalRead(p)
    IN  resp.err = NoErr /\ ~resp.respNil /\ ~resp.dataNil

\* exactly one field, named value, holding a string
ScalarShape(data) ==
    /\ Cardinality(DOMAIN data) = 1
    /\ sValue \in DOMAIN data
    /\ data[sValue].t = "string"

Structured(p) == HasData(p) /\ ~ScalarShape(LogicalRead(p).data)

\* a field name after a key, one separator between them
JoinOne(key, name) == key \o <<"/">> \o name

\* the string leaves of a value under key: <<key of the leaf, its string>>
RECURSIVE StringLeaves(_, _)
StringLeaves(key, value) ==
    CASE value.t = "string" -> {<<key, value.s>>}
      [] value.t = "map" ->
            UNION {StringLeaves(JoinOne(key, name), value.m[name]) : name \in DOMAIN value.m}
      [] OTHER -> {}

\* C6: the mapping a call returns without error has no entry keyed by a
\* discovered path whose value is structured, and so none holding the JSON
\* encoding of that value.
C6_NoEntryAtStructuredPath ==
    (ret.called /\ ret.err = NoErr) =>
        \A p \in branches :
            Structured(p) =>
                /\ p \notin DOMAIN ret.vars
                /\ \A k \in DOMAIN ret.vars :
                      ret.vars[k] # Marshal(Map(LogicalRead(p).data))

\* a step of the loop of line 205 that reads a path
ReadStep == pc = "read" /\ readCalls' # readCalls

\* C7: a value read is taken as a scalar secret exactly when it has one
\* field, named value, holding a string, and then the step changes the
\* mapping by the one entry path -> string; every other shape is flattened:
\* after the step there is no entry at the path, and each string field has
\* its entry at the path joined with its name.
C7_ScalarExactly ==
    [][ReadStep =>
        LET key == lastRead'[1]
            data == LogicalRead(key).data
        IN  HasData(key) =>
              IF ScalarShape(data)
              THEN vars' = MapSet(vars, key, data[sValue].s)
              ELSE /\ key \notin DOMAIN vars'
                   /\ \A name \in DOMAIN data :
                         data[name].t = "string" =>
                            /\ JoinOne(key, name) \in DOMAIN vars'
                            /\ vars'[JoinOne(key, name)] = data[name].s]_allVars

\* the value {value: "hello", other: "x"} of /a has been flattened
C7_Witness ==
    /\ pc = "read"
    /\ lastRead = <<pA>>
    /\ HasData(pA)
    /\ Cardinality(DOMAIN LogicalRead(pA).data) = 2
    /\ sValue \in DOMAIN LogicalRead(pA).data
    /\ pA \notin DOMAIN vars
    /\ JoinOne(pA, sValue) \in DOMAIN vars
    /\ vars[JoinOne(pA, sValue)] = <<"h", "e", "l", "l", "o">>

\* C8: the mapping a call returns without error holds, for each discovered
\* path with a structured value and each string leaf of the value, an entry
\* keyed by the path joined with the field names leading to the leaf and
\* valued by the leaf.
C8_EntryPerStringLeaf ==
    (ret.called /\ ret.err = NoErr) =>
        \A p \in branches :
            Structured(p) =>
                \A leaf \in StringLeaves(p, Map(LogicalRead(p).data)) :
                    /\ leaf[1] \in DOMAIN ret.vars
                    /\ ret.vars[leaf[1]] = leaf[2]

\* C9: a read that succeeds without data leaves the mapping as it was,
\* returns nothing, and the loop goes on with the paths not yet read.
C9_NoDataSkipped ==
    [][ReadStep =>
        LET key == lastRead'[1]
            resp == LogicalRead(key)
        IN  (resp.err = NoErr /\ (resp.respNil \/ resp.dataNil)) =>
              /\ vars' = vars
              /\ ret' = ret
              /\ pc' = "read"
              /\ unread' = unread \ {key}]_allVars

\* a path without data was read after the mapping got an entry, with paths
\* still to read
C9_Witness ==
    /\ pc = "read"
    /\ lastRead # <<>>
    /\ LogicalRead(lastRead[1]).err = NoErr
    /\ ~HasData(lastRead[1])
    /\ vars # EmptyMap
    /\ unread # {}

-----------------------------------------------------------------------------
(* C10 *)

\* the one prefix of a call and the one prefix of the call before it are a
\* path without a trailing slash and that path followed by a slash
SlashPair(p, q) == NoTrailingSlash(p) /\ q = p \o <<"/">>

\* the path without the slash of two such calls
SlashLess == IF SlashPair(prev.keys[1], keys[1]) THEN prev.keys[1] ELSE keys[1]

SlashCalls ==
    /\ prev.valid
    /\ Discovered
    /\ Len(keys) = 1
    /\ Len(prev.keys) = 1
    /\ (SlashPair(prev.keys[1], keys[1]) \/ SlashPair(keys[1], prev.keys[1]))

\* the prefix "/" is listed and recorded as "/", and the empty path is in the
\* visited set only when it is a prefix
RootKept ==
    (Discovered /\ pRoot \in Prefixes(keys)) =>
        /\ pRoot \in Listed
        /\ pRoot \in branches
        /\ (pEmpty \in branches => pEmpty \in Prefixes(keys))

\* C10 as stated: for every path p not ending in a slash, the empty path
\* among them, the call from p and the call from p followed by a slash make
\* the same List calls and visit the same set, and "/" is kept as "/".
C10_Original ==
    /\ SlashCalls => (listCalls = prev.listCalls /\ branches = prev.branches)
    /\ RootKept

\* C10 amended: the same for every path p that is not empty and does not end
\* in a slash.
C10_SlashStripped ==
    /\ (SlashCalls /\ SlashLess # <<>>) =>
          (listCalls = prev.listCalls /\ branches = prev.branches)
    /\ RootKept

\* the call from /a after the call from /a/ (or the other way round), two
\* List calls each
C10_Witness ==
    /\ SlashCalls
    /\ {keys[1], prev.keys[1]} = {pA, pASlash}
    /\ Len(listCalls) >= 2
    /\ ret.called

-----------------------------------------------------------------------------
(* C12 *)

\* C12: every path passed to Logical().List is in the visited set from the
\* step of its List call on, and no path is passed to List twice in one call
\* of GetValues, whether it is reached as a prefix, as a child of one parent or
\* as a child of several.
C12_ListedOnceAndVisited ==
    /\ Listed \subseteq branches
    /\ Cardinality(Listed) = Len(listCalls)

\* /a was reached as a prefix, as the child a/ of / and as the child .. of
\* /a/b, and discovery is over
C12_Witness ==
    /\ Discovered
    /\ pRoot \in Prefixes(keys)
    /\ pA \in Prefixes(keys)
    /\ {pRoot, pA, pAB} \subseteq Listed
    /\ LogicalList(pAB).err = NoErr
    /\ ~LogicalList(pAB).respNil
    /\ LogicalList(pAB).keys.t = "list"

-----------------------------------------------------------------------------
(* C13 *)

\* C13: only visited paths are passed to Logical().Read, none of them twice;
\* during the range the paths read and the paths still to read make up the
\* visited set, and when GetValues returns without an error every visited
\* path has been read exactly once.
C13_ReadExactlyVisited ==
    /\ WasRead \subseteq branches
    /\ \A p \in WasRead : readCalls[p] = 1
    /\ pc = "read" => (WasRead \cup unread = branches /\ WasRead \cap unread = {})
    /\ (ret.called /\ ret.err = NoErr) =>
          (WasRead = branches /\ BagCardinality(readCalls) = Cardinality(branches))

\* a call that visited four paths, one of them without data, has returned a
\* mapping
C13_Witness ==
    /\ ret.called
    /\ ret.err = NoErr
    /\ Cardinality(branches) >= 4
    /\ WasRead = branches
    /\ \E p \in branches : ~HasData(p)

-----------------------------------------------------------------------------
(* C14 *)

\* the remote calls this call of GetValues has issued, each of them returned
\* within the step that issued it
RemoteCalls == Len(listCalls) + BagCardinality(readCalls)

\* every walkTree call has returned and no prefix is left to walk
DiscoveryOver == stack = <<>> /\ i > Len(keys)

\* C14: within a call of GetValues a step issues at most one remote call, which
\* has returned when the step ends, so no two calls are outstanding together;
\* a Read is issued only when every walkTree call has returned, and no List
\* follows a Read of the same call.
C14_SequentialTwoPhase ==
    [][/\ pc # "idle" => RemoteCalls' <= RemoteCalls + 1
       /\ (pc # "idle" /\ readCalls' # readCalls) =>
             (DiscoveryOver /\ listCalls' = listCalls)
       /\ (pc # "idle" /\ readCalls # EmptyBag) => listCalls' = listCalls
       /\ pc' = "walk" => readCalls' = EmptyBag]_allVars

\* the second Read of a call whose discovery issued three List calls
C14_Witness ==
    /\ pc = "read"
    /\ Len(listCalls) >= 3
    /\ BagCardinality(readCalls) = 2
    /\ unread # {}

-----------------------------------------------------------------------------
(* C15 *)

\* an answer of List without an error that walkTree returns on at lines
\* 248-257: no response, no data, no keys field, or keys that is not a list
LeafShape(resp) ==
    /\ resp.err = NoErr
    /\ (resp.respNil \/ resp.dataNil \/ resp.keys.t # "list")

LeafPaths == {p \in Listed : LeafShape(LogicalList(p))}

\* what a finished discovery and the reads after it show of the listings
C15_Shapes ==
    Discovered =>
        /\ LeafPaths \subseteq branches
        /\ pc = "read" => LeafPaths \subseteq WasRead \cup unread
        /\ \A q \in Listed : ChildPaths(q) \subseteq branches
        /\ \A p \in branches :
              \/ \E n \in DOMAIN keys : p = Normalized(keys[n])
              \/ \E q \in Listed : p \in ChildPaths(q)
        /\ (ret.called /\ \A p \in WasRead : LogicalRead(p).err = NoErr) =>
              (ret.err = NoErr /\ ~ret.varsNil /\ LeafPaths \subseteq WasRead)

\* C15: a List answer with no data, no keys field or keys that is not a list
\* makes walkTree return nil with the path kept in the visited set and no
\* child explored, and the path is read later; an entry of keys that is not a
\* string is skipped and the loop goes on, so every string entry of a listing
\* is explored; none of these shapes makes GetValues return an error.
C15_OddShapesAreLeaves ==
    /\ []C15_Shapes
    /\ [][/\ (pc = "walk" /\ listCalls' # listCalls) =>
                LET key == listCalls'[Len(listCalls')]
                IN  LeafShape(LogicalList(key)) =>
                       (key \in branches' /\ stack' = Pop /\ walkRet' = NoErr /\ pc' = "walk")
          /\ (/\ pc = "walk"
              /\ stack # <<>>
              /\ Top.pc = "loop"
              /\ Top.idx <= Len(Top.keyList)
              /\ Top.keyList[Top.idx].t # "string") =>
                /\ stack' = Append(Pop, Loop(Top.key, Top.keyList, Top.idx + 1))
                /\ branches' = branches
                /\ listCalls' = listCalls
                /\ walkRet' = walkRet]_allVars

\* GetValues has returned a mapping after the listing of /a held a number
\* between two strings and the List of its child /a/b gave no response: /a/b
\* was visited and read
C15_Witness ==
    /\ ret.called
    /\ ret.err = NoErr
    /\ pA \in Listed
    /\ LogicalList(pA).keys.t = "list"
    /\ \E n \in DOMAIN LogicalList(pA).keys.m :
          /\ LogicalList(pA).keys.m[n].t # "string"
          /\ n < Len(LogicalList(pA).keys.m)
    /\ pAB \in LeafPaths
    /\ pAB \in WasRead

-----------------------------------------------------------------------------
(* C16 *)

\* no List and no Read fails on the paths of S
NoCallFails(S) ==
    \A p \in S : LogicalList(p).err = NoErr /\ LogicalRead(p).err = NoErr

\* C16: on one remote, two calls of GetValues with the same set of prefixes
\* in which no List and no Read fails return the same mapping, whatever order
\* the range of line 205 took in each of them.
C16_ReadOrderIndependent ==
    (/\ prev.valid
     /\ ret.called
     /\ Prefixes(keys) = Prefixes(prev.keys)
     /\ NoCallFails(branches)
     /\ NoCallFails(prev.branches)) =>
        (/\ ~ret.varsNil
         /\ ~prev.ret.varsNil
         /\ ret.vars = prev.ret.vars)

-----------------------------------------------------------------------------
(* C17 *)

\* C17: a call of GetValues with the prefix list of the call before it, on the
\* same remote, issues the same List calls, visits the same paths and returns
\* what the call before returned, whether that call returned a mapping or an
\* error.
C17_SameOutcomeTwice ==
    (prev.valid /\ ret.called /\ keys = prev.keys) =>
        (/\ listCalls = prev.listCalls
         /\ branches = prev.branches
         /\ ret = prev.ret)

-----------------------------------------------------------------------------
(* C11 *)

\* what a step that returns from WatchPrefix leaves behind
WatchReturns ==
    /\ watchRet'.called
    /\ watchRet'.index = 0
    /\ watchRet'.err = ErrWatchNotSupported
    /\ listCalls' = listCalls
    /\ readCalls' = readCalls
    /\ loginCalls' = loginCalls
    /\ UNCHANGED <<fetchVars, newArgs, newRet, token>>

\* C11: in every state, with a fetch under way or not, WatchPrefix can return
\* at once for every prefix and every context, and a step that returns from
\* it returns index 0 with ErrWatchNotSupported and issues no List, no Read
\* and no login call.
C11_WatchNotSupported ==
    /\ [](\A ctx \in Contexts, prefix \in KeySet : ENABLED WatchPrefixCall(ctx, prefix))
    /\ [][watchRet' # watchRet => WatchReturns]_allVars

\* WatchPrefix has returned for the prefix /a/ and a live context in the
\* middle of the read loop of a fetch
C11_Witness ==
    /\ watchRet.called
    /\ watchRet.prefix = pASlash
    /\ watchRet.ctx = "live"
    /\ watchRet.index = 0
    /\ watchRet.err = ErrWatchNotSupported
    /\ pc = "read"
    /\ BagCardinality(readCalls) = 1
    /\ unread # {}

-----------------------------------------------------------------------------
(* C18 *)

\* the parameters the case of an auth type passes to getParameter
RequiredParams(authType) ==
    CASE authType = "approle" -> {"role-id", "secret-id"}
      [] authType = "app-id" -> {"app-id", "user-id"}
      [] authType = "github" -> {"token"}
      [] authType = "token" -> {"token"}
      [] authType = "userpass" -> {"username", "password"}
      [] authType = "kubernetes" -> {"role-id"}
      [] OTHER -> {}

MissingParams == {n \in RequiredParams(newArgs.authType) : newArgs.params[n] = ""}

\* C18: when New was called with a parameter of its auth type empty, it has
\* returned an error and no client, no panic has left it, and no login call
\* was sent; when the client could be set up (and, for kubernetes, the
\* service account token read), the error is the missing-configuration
\* message of one of the empty parameters.
C18_MissingParameterIsAnError ==
    (newRet.called /\ MissingParams # {}) =>
        /\ newRet.clientNil
        /\ newRet.err # NoErr
        /\ newRet.panic = NoPanic
        /\ loginCalls = <<>>
        /\ (/\ newArgs.env.setup = "ok"
            /\ (newArgs.authType = "kubernetes" => newArgs.env.jwt)) =>
              \E n \in MissingParams : newRet.err = ErrorsNew(MissingText(n))

\* New("userpass") with a username, no password and a store that would have
\* answered the login with a token has returned the error of the password
C18_Witness ==
    /\ newRet.called
    /\ newArgs.authType = "userpass"
    /\ newArgs.params["username"] = "v"
    /\ newArgs.params["password"] = ""
    /\ newArgs.env.setup = "ok"
    /\ newArgs.env.login = SecretAuth
    /\ newRet.clientNil
    /\ newRet.err = ErrorsNew(MissingText("password"))
    /\ loginCalls = <<>>


====
